---- MODULE Spec2Model ----
(***************************************************************************)
(* Model of the field change-tracking crate: SoftwareVersion ordering,     *)
(* Field / FieldInner dirty tracking through Deref / DerefMut, the         *)
(* FieldParameter mapping of UserFields and the User object.               *)
(*                                                                         *)
(* Encoding: Option<T> is a sequence of length 0 (None) or 1 (Some(v));    *)
(* a String is a sequence of one-character strings; a u32 is a natural.    *)
(***************************************************************************)
EXTENDS Integers, Sequences, FiniteSets, TLC

VARIABLES user, hist, last, log, v1, v2, cmp

vars == <<user, hist, last, log, v1, v2, cmp>>

(***************************************************************************)
(* Bounds of the input sets.                                               *)
(***************************************************************************)
\* u32 values written to id and role_id are drawn from 0..MaxU32Val
MaxU32Val == 1
\* major and minor of the compared versions are drawn from 0..MaxVer
MaxVer == 2

U32Values == 0 .. MaxU32Val

bob == <<"b", "o", "b">>

StrValues == { <<>>, bob }

FieldNames == {"id", "name", "role_id"}

\* declaration order of the fields of User
FieldOrder == <<"id", "name", "role_id">>

CommandType == {"Create", "Modify", "Delete"}

None == <<>>

Some(v) == <<v>>

is_none(o) == Len(o) = 0

is_some(o) == Len(o) = 1

(***************************************************************************)
(* SoftwareVersion and its hand-written PartialOrd.                        *)
(***************************************************************************)
SoftwareVersion_new(major, minor) == [major |-> major, minor |-> minor]

\* derived PartialEq / Eq
eq(self, other) == self.major = other.major /\ self.minor = other.minor

gt_lexicographic(self, other) ==
    self.major > other.major \/ (self.major = other.major /\ self.minor > other.minor)

\* the minor of self is compared with the MAJOR of other, as in the source
gt(self, other) ==
    self.major > other.major \/ (self.major = other.major /\ self.minor > other.major)

lt(self, other) ==
    self.major < other.major \/ (self.major = other.major /\ self.minor < other.minor)

ge(self, other) == eq(self, other) \/ gt(self, other)

le(self, other) == eq(self, other) \/ lt(self, other)

partial_cmp(self, other) ==
    IF gt(self, other) THEN Some("Greater")
    ELSE IF eq(self, other) THEN Some("Equal")
    ELSE Some("Less")

SYSTEM_VERSION == SoftwareVersion_new(3, 188)

(***************************************************************************)
(* VersionFilter, FieldInner, Field.                                       *)
(***************************************************************************)
VersionFilter_min_version(version) == [tag |-> "MinVersion", min |-> version]

\* T::default() for the two field types of User
Default(T) == IF T = "String" THEN <<>> ELSE 0

\* variant: the field is born with an old_value
FieldInner_new_dirty(field_name, field, T) ==
    [ field_name  |-> field_name,
      min_version |-> None,
      max_version |-> None,
      value       |-> Default(T),
      old_value   |-> Some(Default(T)),
      field_enum  |-> field ]

FieldInner_new(field_name, field, T) ==
    [ field_name  |-> field_name,
      min_version |-> None,
      max_version |-> None,
      value       |-> Default(T),
      old_value   |-> None,
      field_enum  |-> field ]

Field_new(field_name, field, T) ==
    [ tag |-> "Field", inner |-> FieldInner_new(field_name, field, T) ]

\* the filter is stored in the variant; min_version / max_version of the
\* inner stay None
Field_new_versioned(field_name, field, T, versions) ==
    [ tag      |-> "VersionedField",
      inner    |-> FieldInner_new(field_name, field, T),
      versions |-> versions ]

FieldInner_deref(self) == self.value

\* both match arms hand the inner to FieldInner::deref
Field_deref(self) == FieldInner_deref(self.inner)

Warning(bound, version) ==
    [ system |-> SYSTEM_VERSION, bound |-> bound, version |-> version ]

\* the two version checks of deref_mut against SYSTEM_VERSION
VersionWarnings(self) ==
    (IF is_some(self.min_version) /\ lt(SYSTEM_VERSION, self.min_version[1])
     THEN {Warning("min", self.min_version[1])} ELSE {})
    \cup
    (IF is_some(self.max_version) /\ gt(SYSTEM_VERSION, self.max_version[1])
     THEN {Warning("max", self.max_version[1])} ELSE {})

\* variant: the snapshot is taken on every mutating access
FieldInner_deref_mut_overwrite(self) ==
    [ self   |-> [self EXCEPT !.old_value = Some(self.value)],
      warned |-> VersionWarnings(self) ]

\* variant: no snapshot is taken
FieldInner_deref_mut_no_capture(self) ==
    [ self   |-> self,
      warned |-> VersionWarnings(self) ]

\* variant: the snapshot is the default value instead of the current one
FieldInner_deref_mut_capture_default(self) ==
    [ self   |-> IF is_none(self.old_value)
                 THEN [self EXCEPT !.old_value =
                          Some(IF self.field_name = "name" THEN <<>> ELSE 0)]
                 ELSE self,
      warned |-> VersionWarnings(self) ]

\* result: the field after the access and the diagnostics the access logged
FieldInner_deref_mut(self) ==
    [ self   |-> IF is_none(self.old_value)
                 THEN [self EXCEPT !.old_value = Some(self.value)]
                 ELSE self,
      warned |-> VersionWarnings(self) ]

\* both match arms hand the inner to FieldInner::deref_mut; the filter of a
\* VersionedField is not looked at
Field_deref_mut(self) ==
    [ self   |-> [self EXCEPT !.inner = FieldInner_deref_mut(self.inner).self],
      warned |-> FieldInner_deref_mut(self.inner).warned ]

\* a field is changed when its old_value is present
filter_changed_fields(field) == is_some(field.inner.old_value)

(***************************************************************************)
(* User, UserFields and the FieldParameter mapping.                        *)
(***************************************************************************)
UserFields == {"Id", "Name", "RoleId"}

FieldType == [id |-> "u32", name |-> "String", role_id |-> "u32"]

Values(f) == IF FieldType[f] = "String" THEN StrValues ELSE U32Values

User_default ==
    [ id      |-> Field_new("id", "Id", "u32"),
      name    |-> Field_new("name", "Name", "String"),
      role_id |-> Field_new_versioned("role_id", "RoleId", "u32",
                     VersionFilter_min_version(SoftwareVersion_new(4, 12))) ]

\* String::is_empty
is_empty(s) == Len(s) = 0

Panic == [tag |-> "Panic"]

Flag(name) == [tag |-> "Flag", name |-> name]

Parameter(name) == [tag |-> "Parameter", name |-> name]

\* variant: the emptiness test looks at the old value
get_parameter_old(self, command_type, old_value, new_value) ==
    CASE self = "Id"     -> Panic
      [] self = "Name"   -> IF is_empty(FieldInner_deref(old_value))
                            THEN Flag("-reset_name")
                            ELSE Parameter("-set_name")
      [] self = "RoleId" -> Parameter("-set_roleid")

\* is_empty is only evaluated in the Name arm; the Id arm is unreachable!()
get_parameter(self, command_type, old_value, new_value) ==
    CASE self = "Id"     -> Panic
      [] self = "Name"   -> IF is_empty(FieldInner_deref(new_value))
                            THEN Flag("-reset_name")
                            ELSE Parameter("-set_name")
      [] self = "RoleId" -> Parameter("-set_roleid")

get_id(self) == Field_deref(self.id)

get_modify_command(self) == "update_user"

(***************************************************************************)
(* Operations the design describes that the sources do not define:         *)
(* is_dirty, old_value, clear_dirty and the ModificationCommand builder.   *)
(***************************************************************************)
is_dirty(field) == is_some(field.inner.old_value)

old_value(field) == field.inner.old_value

clear_dirty(field) == [field EXCEPT !.inner.old_value = None]

\* the old snapshot handed to the mapping: the field as it was before the
\* first mutation of the dirty window
old_snapshot(inner) == [inner EXCEPT !.value = inner.old_value[1], !.old_value = None]

DirtyFields(object) ==
    SelectSeq(FieldOrder, LAMBDA f : filter_changed_fields(object[f]))

BuildParameters(object, command_type) ==
    [ i \in 1 .. Len(DirtyFields(object)) |->
        get_parameter(object[DirtyFields(object)[i]].inner.field_enum,
                      command_type,
                      old_snapshot(object[DirtyFields(object)[i]].inner),
                      object[DirtyFields(object)[i]].inner) ]

NoChange == [tag |-> "NoChange"]

\* variant: the empty parameter list is not told apart
build_empty_command(object, command_type) ==
    [ object |-> object,
      result |->
        IF \E i \in 1 .. Len(BuildParameters(object, command_type)) :
              BuildParameters(object, command_type)[i] = Panic
        THEN Panic
        ELSE [ tag          |-> "Command",
               object_id    |-> get_id(object),
               command_name |-> get_modify_command(object),
               parameters   |-> BuildParameters(object, command_type) ] ]

\* result: the build result and the object as the builder leaves it
build(object, command_type) ==
    [ object |-> object,
      result |->
        IF \E i \in 1 .. Len(BuildParameters(object, command_type)) :
              BuildParameters(object, command_type)[i] = Panic
        THEN Panic
        ELSE IF Len(BuildParameters(object, command_type)) = 0
        THEN NoChange
        ELSE [ tag          |-> "Command",
               object_id    |-> get_id(object),
               command_name |-> get_modify_command(object),
               parameters   |-> BuildParameters(object, command_type) ] ]

(***************************************************************************)
(* History of each field, kept beside the program state: the number of     *)
(* mutating accesses since construction or the last clear (0, 1, or 2 for  *)
(* two or more),                                                           *)
(* the value held before the first of them, whether the field was ever     *)
(* accessed mutably since construction, and the last value stored.         *)
(***************************************************************************)
HistInit == [n |-> 0, before |-> None, fresh |-> TRUE, stored |-> None]

HistMutate(h, current, v) ==
    [ n      |-> IF h.n = 0 THEN 1 ELSE 2,
      before |-> IF h.n = 0 THEN Some(current) ELSE h.before,
      fresh  |-> FALSE,
      stored |-> Some(v) ]

HistClear(h) == [h EXCEPT !.n = 0, !.before = None]

\* a value of a field, tagged with its type: values of different types are
\* never compared with each other
Wrap(f, v) == IF FieldType[f] = "String" THEN [str |-> v] ELSE [u32 |-> v]

NoValue == [tag |-> "-"]

NoCall ==
    [ op |-> "default", field |-> "-", kind |-> "-", arg |-> NoValue, result |-> NoValue,
      warned |-> {}, checked |-> FALSE, panicked |-> FALSE, after_clear |-> FALSE ]

(***************************************************************************)
(* The state machine of one User.                                          *)
(***************************************************************************)
Init ==
    /\ user = User_default
    /\ hist = [f \in FieldNames |-> HistInit]
    /\ last = NoCall
    /\ log = {}
    /\ v1 = SYSTEM_VERSION
    /\ v2 = SoftwareVersion_new(4, 12)
    /\ cmp = None

\* let mut user: User = User::default();
Construct ==
    /\ user' = User_default
    /\ hist' = [f \in FieldNames |-> HistInit]
    /\ last' = NoCall
    /\ UNCHANGED <<log, v1, v2, cmp>>

\* *user.f = v : DerefMut of the field, then the store through the reference
Assign(f, v) ==
    /\ user' = [user EXCEPT ![f] =
                   [Field_deref_mut(user[f]).self EXCEPT !.inner.value = v]]
    /\ log' = log \cup Field_deref_mut(user[f]).warned
    /\ hist' = [hist EXCEPT ![f] = HistMutate(hist[f], user[f].inner.value, v)]
    /\ last' = [NoCall EXCEPT !.op = "deref_mut", !.field = f, !.arg = Wrap(f, v),
                              !.warned = Field_deref_mut(user[f]).warned,
                              !.checked = TRUE,
                              !.after_clear = (hist[f].n = 0 /\ ~hist[f].fresh)]
    /\ UNCHANGED <<v1, v2, cmp>>

\* variant: the read goes through DerefMut
ReadDirtying(f) ==
    /\ user' = [user EXCEPT ![f] = Field_deref_mut(user[f]).self]
    /\ last' = [NoCall EXCEPT !.op = "deref", !.field = f,
                              !.result = Wrap(f, Field_deref(user[f])),
                              !.checked = TRUE]
    /\ UNCHANGED <<hist, log, v1, v2, cmp>>

\* *user.f : Deref of the field
Read(f) ==
    /\ last' = [NoCall EXCEPT !.op = "deref", !.field = f,
                              !.result = Wrap(f, Field_deref(user[f]))]
    /\ UNCHANGED <<user, hist, log, v1, v2, cmp>>

\* user.get_id()
GetId ==
    /\ last' = [NoCall EXCEPT !.op = "get_id", !.field = "id",
                              !.result = Wrap("id", get_id(user))]
    /\ UNCHANGED <<user, hist, log, v1, v2, cmp>>

\* the mapping applied to one changed field of the user
GetParameter(f, command_type) ==
    /\ filter_changed_fields(user[f])
    /\ LET p == get_parameter(user[f].inner.field_enum, command_type,
                              old_snapshot(user[f].inner), user[f].inner)
       IN last' = [NoCall EXCEPT !.op = "get_parameter", !.field = f,
                                 !.kind = command_type,
                                 !.arg = Wrap(f, user[f].inner.value),
                                 !.result = p,
                                 !.panicked = (p = Panic)]
    /\ UNCHANGED <<user, hist, log, v1, v2, cmp>>

Build(command_type) ==
    /\ user' = build(user, command_type).object
    /\ last' = [NoCall EXCEPT !.op = "build", !.kind = command_type,
                              !.result = build(user, command_type).result,
                              !.panicked = (build(user, command_type).result = Panic)]
    /\ UNCHANGED <<hist, log, v1, v2, cmp>>

ClearDirty(f) ==
    /\ user' = [user EXCEPT ![f] = clear_dirty(user[f])]
    /\ hist' = [hist EXCEPT ![f] = HistClear(hist[f])]
    /\ last' = [NoCall EXCEPT !.op = "clear_dirty", !.field = f]
    /\ UNCHANGED <<log, v1, v2, cmp>>

Next ==
    \/ Construct
    \/ \E f \in FieldNames : \E v \in Values(f) : Assign(f, v)
    \/ \E f \in FieldNames : Read(f)
    \/ GetId
    \/ \E f \in FieldNames : \E k \in CommandType : GetParameter(f, k)
    \/ \E k \in CommandType : Build(k)
    \/ \E f \in FieldNames : ClearDirty(f)

Spec == Init /\ [][Next]_vars

(***************************************************************************)
(* The comparison operators applied to two versions drawn from a bounded   *)
(* set.                                                                    *)
(***************************************************************************)
Versions == { SoftwareVersion_new(a, b) : a \in 0 .. MaxVer, b \in 0 .. MaxVer }

InitVersion ==
    /\ user = User_default
    /\ hist = [f \in FieldNames |-> HistInit]
    /\ last = NoCall
    /\ log = {}
    /\ v1 \in Versions
    /\ v2 \in Versions
    /\ cmp = None

Compare ==
    /\ is_none(cmp)
    /\ cmp' = Some([ lt |-> lt(v1, v2), gt |-> gt(v1, v2),
                     le |-> le(v1, v2), ge |-> ge(v1, v2),
                     eq |-> eq(v1, v2),
                     rgt |-> gt(v2, v1), rlt |-> lt(v2, v1),
                     partial_cmp |-> partial_cmp(v1, v2) ])
    /\ UNCHANGED <<user, hist, last, log, v1, v2>>

NextVersion == Compare

SpecVersion == InitVersion /\ [][NextVersion]_vars

(***************************************************************************)
(* Properties.                                                             *)
(***************************************************************************)
\* VersionFilter evaluated against a version, as the design defines it
applies_at(filter, version) ==
    CASE filter.tag = "MinVersion" ->
             IF lt(version, filter.min) THEN "BelowMin" ELSE "Supported"
      [] filter.tag = "MaxVersion" ->
             IF gt_lexicographic(version, filter.max) THEN "AboveMax" ELSE "Supported"
      [] filter.tag = "VersionRange" ->
             IF lt(version, filter.min) THEN "BelowMin"
             ELSE IF gt_lexicographic(version, filter.max) THEN "AboveMax"
             ELSE "Supported"

\* C1: once a field has had n >= 1 mutating accesses since construction or
\* the last clear, old_value is present and is the value the field held
\* before the first of them; reads and later mutating accesses keep it.
FirstOldValueKept ==
    \A f \in FieldNames :
        hist[f].n >= 1 =>
            /\ is_some(user[f].inner.old_value)
            /\ user[f].inner.old_value = hist[f].before

\* a field mutated at least twice in one window, holding a value other than
\* the one it had before the first mutation
FirstOldValueKeptWitness ==
    \E f \in FieldNames :
        /\ hist[f].n >= 2
        /\ last.op = "deref_mut" /\ last.field = f
        /\ user[f].inner.value # hist[f].before[1]

\* C2: lt, gt, le, ge and partial_cmp are the lexicographic total order on
\* (major, minor): exactly one of a < b, a == b, a > b holds, a > b iff
\* b < a, partial_cmp matches, and equal major with minor1 < minor2 gives
\* version1 < version2, version2 > version1, version1 /= version2.
VersionOrderIsLexicographic ==
    is_some(cmp) =>
        /\ cmp[1].gt = gt_lexicographic(v1, v2)
        /\ cmp[1].lt = gt_lexicographic(v2, v1)
        /\ Cardinality({ r \in {"lt", "eq", "gt"} : cmp[1][r] }) = 1
        /\ cmp[1].gt = cmp[1].rlt
        /\ cmp[1].le = (cmp[1].lt \/ cmp[1].eq)
        /\ cmp[1].ge = (cmp[1].gt \/ cmp[1].eq)
        /\ cmp[1].partial_cmp = Some(IF gt_lexicographic(v1, v2) THEN "Greater"
                                     ELSE IF v1 = v2 THEN "Equal" ELSE "Less")
        /\ (v1.major = v2.major /\ v1.minor < v2.minor) =>
               (cmp[1].lt /\ cmp[1].rgt /\ ~cmp[1].eq)

\* C3: a mutating access to a Versioned field whose filter is not satisfied
\* by the current system version emits a diagnostic.
VersionedMutationWarns ==
    (/\ last.op = "deref_mut"
     /\ user[last.field].tag = "VersionedField"
     /\ applies_at(user[last.field].versions, SYSTEM_VERSION) # "Supported")
        => last.warned # {}

\* C4: after a mutating access that stores v the field is Dirty and holds v,
\* whatever its version filter; every read up to the next mutating access
\* returns the value stored last.
WriteAlwaysSucceeds ==
    /\ last.op = "deref_mut" =>
           /\ is_some(user[last.field].inner.old_value)
           /\ Wrap(last.field, user[last.field].inner.value) = last.arg
    /\ (last.op = "deref" /\ is_some(hist[last.field].stored)) =>
           last.result = Wrap(last.field, hist[last.field].stored[1])

\* a read of the Versioned field, outside its version window, returning a
\* non-default value stored before
WriteAlwaysSucceedsWitness ==
    /\ last.op = "deref"
    /\ last.field = "role_id"
    /\ applies_at(user.role_id.versions, SYSTEM_VERSION) = "BelowMin"
    /\ is_some(hist.role_id.stored)
    /\ last.result.u32 # 0

\* C5: a field constructed by Field::new or Field::new_versioned and not yet
\* accessed mutably is Clean: old_value is None and its value is the default
\* of its type.
FreshFieldIsClean ==
    \A f \in FieldNames :
        hist[f].fresh =>
            /\ user[f].inner.old_value = None
            /\ ~filter_changed_fields(user[f])
            /\ user[f].inner.value = (IF f = "name" THEN <<>> ELSE 0)

\* a user right after construction, with its Plain and Versioned fields
FreshFieldIsCleanWitness ==
    /\ last.op = "default"
    /\ \A f \in FieldNames : hist[f].fresh
    /\ user.id.tag = "Field" /\ user.role_id.tag = "VersionedField"

\* C6: a read, and the read of id by get_id, leaves value, old_value and the
\* Clean/Dirty state of every field unchanged, runs no version check and
\* emits no diagnostic.
ReadHasNoSideEffect ==
    [][ last'.op \in {"deref", "get_id"} =>
            /\ user' = user
            /\ log' = log
            /\ last'.warned = {}
            /\ ~last'.checked
            /\ last'.result = Wrap(last'.field, user[last'.field].inner.value) ]_vars

\* a read of a Clean field that was written before (a write-like read would
\* make it Dirty)
ReadHasNoSideEffectWitness ==
    /\ last.op \in {"deref", "get_id"}
    /\ ~hist[last.field].fresh
    /\ is_none(user[last.field].inner.old_value)

\* C7: for Modify, a changed name field maps to Flag("-reset_name") exactly
\* when its new value is empty and to Parameter("-set_name") otherwise,
\* whatever the old value was.
NameParameterEncoding ==
    (last.op = "get_parameter" /\ last.field = "name" /\ last.kind = "Modify") =>
        /\ last.arg.str = user.name.inner.value
        /\ (Len(last.arg.str) = 0) => last.result = [tag |-> "Flag", name |-> "-reset_name"]
        /\ (Len(last.arg.str) > 0) => last.result = [tag |-> "Parameter", name |-> "-set_name"]

\* old "" -> new "bob" encoded as Parameter("-set_name")
NameParameterEncodingWitness ==
    /\ last.op = "get_parameter" /\ last.field = "name" /\ last.kind = "Modify"
    /\ user.name.inner.old_value = Some(<<>>)
    /\ user.name.inner.value = bob
    /\ last.result.tag = "Parameter"

\* C8: every core operation returns normally; get_parameter returns a
\* Parameter for every field identity that can become Dirty and every
\* command kind.
AllOperationsTotal ==
    /\ ~last.panicked
    /\ last.op = "get_parameter" => last.result.tag \in {"Flag", "Parameter"}

\* C9: clear_dirty on a field in any state yields no old_value and keeps the
\* value, a second clear changes nothing, and the next mutating access
\* after a clear captures the value held at that access.
ClearDirtyResets ==
    [][ /\ last'.op = "clear_dirty" =>
               /\ ~is_dirty(user'[last'.field])
               /\ old_value(user'[last'.field]) = None
               /\ user'[last'.field].inner.value = user[last'.field].inner.value
               /\ clear_dirty(user'[last'.field]) = user'[last'.field]
        /\ (last'.op = "deref_mut" /\ last'.after_clear) =>
               old_value(user'[last'.field]) = Some(user[last'.field].inner.value)
      ]_vars

\* a mutating access that followed a clear and captured a non-default value
ClearDirtyResetsWitness ==
    /\ last.op = "deref_mut" /\ last.after_clear
    /\ hist[last.field].n = 1
    /\ old_value(user[last.field]) # Some(IF last.field = "name" THEN <<>> ELSE 0)

\* C10: build(Modify) on an object without dirty fields returns NoChange; a
\* Command is returned only when some field is Dirty and never has an empty
\* parameter list; build leaves the dirty state of every field unchanged.
BuildNoChangeWhenClean ==
    [][ last'.op = "build" =>
            /\ user' = user
            /\ (last'.kind = "Modify" /\ \A f \in FieldNames : is_none(user[f].inner.old_value))
                   => last'.result = [tag |-> "NoChange"]
            /\ last'.result.tag = "Command" =>
                   /\ \E f \in FieldNames : is_some(user[f].inner.old_value)
                   /\ Len(last'.result.parameters) >= 1
      ]_vars

\* both outcomes: this build returned NoChange on a user whose fields were
\* all cleared after a write
BuildNoChangeWhenCleanWitness ==
    /\ last.op = "build" /\ last.kind = "Modify"
    /\ last.result.tag = "NoChange"
    /\ \E f \in FieldNames : ~hist[f].fresh

====
